---- MODULE Spec2Model ----
(***************************************************************************)
(* The gameplay core of rust-space-shooter (a Bevy application).           *)
(*                                                                         *)
(* One frame of the Bevy Main schedule is modelled as                      *)
(*   StateTransition  (OnExit / OnEnter handlers, when a NextState is set) *)
(*   BeginUpdate      (Time is advanced, the Update systems become ready)  *)
(*   the Update systems, each one action, in an order the executor picks   *)
(*   ApplyDeferred    (the Commands queued during Update are applied)      *)
(*                                                                         *)
(* Commands (spawn, despawn, insert, remove) are deferred: the systems of  *)
(* one Update all see the entities that existed when Update began, while   *)
(* writes to components and resources are visible at once.                 *)
(*                                                                         *)
(* Time is counted in quarter seconds (0.25 s = 1), so that every duration *)
(* of the source is an integer.  Positions are abstracted: what the        *)
(* collision collaborator (RapierContext) and the Transforms answer is an  *)
(* input of every frame, drawn when the one system that reads it runs and  *)
(* kept in contacts / pickup_contacts until the frame ends.                *)
(*                                                                         *)
(* The plugins are checked in separate specifications (SpecDamage,         *)
(* SpecWave, SpecFormation, SpecPowerup), each scheduling the systems that *)
(* touch the components its properties are about; the actions themselves   *)
(* are shared.                                                             *)
(***************************************************************************)
EXTENDS Integers, Sequences, FiniteSets, TLC

\* ------------------------------------------------------------- bounds
MaxBullets == 2
Wave0Size == 2
Wave1Size == 1
MaxPickups == 3
MaxDeathNotes == 2
MaxSessions == 2
MaxContacts == 2

\* -------------------------------------------------- program constants
PlayerHealth == 5
EnemyHealth == 2
BulletDamage == 1
BulletCooldownTimer == 1
PowerupDuration == 20
EnemyMoveDuration == 8
\* Depth (z) in eighths of a unit: the player stands at z = 7.0, a shot starts
\* 0.5 ahead of it, the formation's depth offset is -3.0, a bullet flies 7.5
\* units per second (15 eighths per quarter second) and is out of bounds
\* beyond |z| = 20.
PlayerZ == 56
ShotOffsetZ == 4
FormationZ == 24
BulletVelocity == 15
ZBound == 160
\* player_controls: a TripleShot adds two lateral spawn positions.
MaxLateral == 2
\* Distances to a formation target in fortieths of a unit: an enemy has
\* arrived within 0.10 of its target.
Tolerance == 4

\* Frame times the model draws from (1 s and 2 s).
DtSet == {4, 8}
\* shot_cooldown_timer draws: the ends of ENEMY_COOLDOWN_RANGE_S.
CooldownDraws == {8, 12}

\* A despawned entity, an absent Option<&PowerupComponent>.
NoEntity == [ despawned |-> TRUE ]
NoPowerup == [ powerup |-> "None" ]
NoWave == -1
\* The distance of an Enemy to its target when the specification does not hold
\* the Transforms: what target.distance(translation) answers is then an input.
Unmeasured == -1
\* An Enemy whose shot_cooldown_timer was drawn by spawn_wave and not read yet:
\* the draw is made when update_enemies first reads the timer.  A timer that
\* update_enemies has written is always positive.
PendingDraw == 0

\* get_waves(): the grid position of the i-th EnemyInstance pushed for a wave
\* whose columns start at first_col, two apart, with the rows first_row up to
\* -first_row in each column.
GridPosition(first_col, first_row, i) ==
    LET rows == 1 - 2 * first_row
    IN << first_col + 2 * ((i - 1) \div rows), first_row + ((i - 1) % rows) >>

\* get_waves(): the catalog, each wave a list of EnemyInstance.  The two
\* waves of the source have 15 and 30 enemies; here the first Wave0Size and
\* Wave1Size of them.
Waves ==
    << [ i \in 1..Wave0Size |->
           [ position |-> GridPosition(-4, -1, i), health |-> EnemyHealth ] ],
       [ i \in 1..Wave1Size |->
           [ position |-> GridPosition(-5, -2, i), health |-> EnemyHealth ] ] >>

MaxWaveSize == IF Wave0Size >= Wave1Size THEN Wave0Size ELSE Wave1Size
EnemySlots == 1..MaxWaveSize
\* MaxBullets bullets in flight, and room for the lateral bullets of the shot
\* that reaches that number.
BulletSlots == 1..(MaxBullets + MaxLateral)
\* Damageable entities: 0 is the player, 1.. are the enemies.
PlayerId == 0
DamageableIds == {PlayerId} \cup EnemySlots

VARIABLES
    state,          \* State<GameState>
    next_state,     \* NextState<GameState>
    phase,          \* where the frame is: "idle" or "update"
    pending,        \* Update systems that have not run yet this frame
    dt,             \* Time::delta_seconds of this frame
    sessions,       \* how many times OnEnter(Game) has run
    game_player,    \* GameResources.player is Some
    player,         \* the entity with Player + Damageable (+ PowerupComponent)
    enemies,        \* slot -> the entity with Enemy + Damageable + Velocity
    bullets,        \* slot -> the entity with Bullet
    pickups,        \* number of PowerupComponent entities Without<Player>
    deaths,         \* EntityDeath entities, counted by is_player
    shakes,         \* CameraShakeEvents sent during this Update
    ai_state,       \* EnemyAIState
    contacts,       \* RapierContext: intersecting (damageable, bullet) pairs
    pickup_contacts,\* RapierContext: pickups intersecting the player
    cmds,           \* the Commands queued during this Update
    player_hits,    \* slot -> cross-faction hits taken by the enemy there
    powerup_ledger, \* pickups consumed, time credited and time elapsed for the power-up
    last_spawned,   \* wave_id of the last spawn_wave call of the session
    wave_menu_requests, \* next_state.set(Menu) calls of change_wave this session
    panicked        \* an unwrap() of the program failed

vars == << state, next_state, phase, pending, dt, sessions, game_player, player,
           enemies, bullets, pickups, deaths, shakes, ai_state,
           contacts, pickup_contacts, cmds, player_hits, powerup_ledger,
           last_spawned, wave_menu_requests, panicked >>

\* ------------------------------------------------------------ helpers
RECURSIVE SetToSeq(_)
SetToSeq(S) ==
    IF S = {} THEN << >>
    ELSE LET m == CHOOSE x \in S : \A y \in S : x <= y
         IN << m >> \o SetToSeq(S \ {m})

Min(a, b) == IF a <= b THEN a ELSE b

LiveEnemies == { e \in EnemySlots : enemies[e] # NoEntity }
LiveBullets == { b \in BulletSlots : bullets[b] # NoEntity }
FreeBulletSlots == BulletSlots \ LiveBullets

IsLive(d) == IF d = PlayerId THEN player # NoEntity ELSE enemies[d] # NoEntity
HealthOf(d) == IF d = PlayerId THEN player.health ELSE enemies[d].health
IsPlayerDamageable(d) == d = PlayerId

NoCommands ==
    [ despawn_damageables |-> {},
      despawn_bullets |-> {},
      deaths |-> [d \in DamageableIds |-> 0],
      hit_small |-> 0,
      hit_large |-> 0,
      spawn_player_bullets |-> 0,
      spawn_lateral_bullets |-> 0,
      spawn_enemy_bullets |-> 0,
      fire_decisions |-> {},
      fired |-> {},
      spawn_wave |-> NoWave,
      remove_target |-> {},
      insert_powerup |-> 0,
      remove_powerup |-> FALSE,
      spawn_pickups |-> 0,
      despawn_pickups |-> 0,
      despawn_deaths |-> 0 ]

\* EnemyAIState::default()
KeptAIState == ai_state
DefaultAIState ==
    [ current_wave |-> 0, move_timer |-> EnemyMoveDuration \div 2, moving_left |-> TRUE ]

\* spawn_bullet(): the Bullet component.  lateral: spawned at one of the
\* (-0.2, 0, 0) / (0.2, 0, 0) offsets of a double or triple shot, that is
\* inside the player's collider, and not 0.5 ahead of it.
NewBullet(is_player_bullet, lateral) ==
    [ is_player_bullet |-> is_player_bullet, damage |-> BulletDamage,
      lateral |-> lateral,
      up_direction |-> is_player_bullet, velocity |-> BulletVelocity,
      z |-> IF ~is_player_bullet THEN -FormationZ
            ELSE IF lateral THEN PlayerZ
            ELSE PlayerZ - ShotOffsetZ ]

\* setup_game_state(): the player entity
NewPlayer ==
    [ health |-> PlayerHealth, bullet_cooldown |-> 0, powerup |-> NoPowerup ]

\* spawn_wave(): MoveToTarget.target of a grid position, in eighths of a
\* unit: x_spacing 0.5, z_spacing 1.0 and z_starting_pos_offset -3.0.
XSpacing == 4
ZSpacing == 8
UnshiftedTarget(position) ==
    [ x |-> position[1] * XSpacing, z |-> position[2] * ZSpacing ]
MoveTarget(position) ==
    [ x |-> position[1] * XSpacing, z |-> position[2] * ZSpacing - FormationZ ]

\* spawn_wave(): the enemy of one EnemyInstance, moving to its formation
\* target.  target: the enemy holds its MoveToTarget, whose target is
\* target_position; once it is removed the enemy stands there.
\* waited: the time taken off shot_cooldown_timer since it was last drawn.
\* distance: how far the Transform is from the MoveToTarget.
NewEnemy(instance) ==
    [ health |-> instance.health, target |-> TRUE,
      target_position |-> MoveTarget(instance.position), linvel |-> "ZERO",
      shot_cooldown_timer |-> PendingDraw, waited |-> 0,
      distance |-> Unmeasured ]

NoLedger == [ consumed |-> 0, picked |-> 0, elapsed |-> 0 ]

AppStart ==
    /\ state = "Menu"
    /\ next_state = "None"
    /\ phase = "idle"
    /\ pending = {}
    /\ dt = 0
    /\ sessions = 0
    /\ game_player = FALSE
    /\ player = NoEntity
    /\ enemies = [e \in EnemySlots |-> NoEntity]
    /\ bullets = [b \in BulletSlots |-> NoEntity]
    /\ pickups = 0
    /\ deaths = [enemy |-> 0, player |-> 0]
    /\ shakes = 0
    /\ ai_state = DefaultAIState
    /\ contacts = {}
    /\ pickup_contacts = 0
    /\ cmds = NoCommands
    /\ player_hits = [e \in EnemySlots |-> 0]
    /\ powerup_ledger = NoLedger
    /\ last_spawned = NoWave
    /\ wave_menu_requests = 0
    /\ panicked = FALSE

\* -------------------------------------------------------- the frame
\* The executor runs any system that has not run yet this frame.
Runs(system) ==
    /\ phase = "update"
    /\ system \in pending
    /\ pending' = pending \ {system}

\* Main schedule, Update: Time has advanced by dt and the systems registered
\* with run_if(in_state(GameState::Game)) run, in an order that is not
\* constrained by the add_systems tuples (no .chain(), no before/after).
BeginUpdate(systems) ==
    /\ phase = "idle"
    /\ ~panicked
    /\ state = "Game"
    /\ next_state = "None"
    /\ phase' = "update"
    /\ dt' \in DtSet
    /\ pending' = systems
    /\ UNCHANGED << powerup_ledger, state, next_state, sessions, game_player, player, enemies, shakes,
                    bullets, pickups, deaths, ai_state, contacts,
                    pickup_contacts, cmds, player_hits, last_spawned,
                    wave_menu_requests, panicked >>

\* update_buttons (main_menu.rs): Play is pressed in the menu.
PlayPressed ==
    /\ ~panicked
    /\ phase = "idle"
    /\ state = "Menu"
    /\ next_state = "None"
    /\ sessions < MaxSessions
    /\ next_state' = "Game"
    /\ UNCHANGED << powerup_ledger, state, phase, pending, dt, sessions, game_player, player,
                    enemies, bullets, pickups, deaths, shakes,
                    ai_state, contacts, pickup_contacts, cmds, player_hits,
                    last_spawned, wave_menu_requests, panicked >>

\* spawn_wave(wave_id): waves.get(wave_id).unwrap() fails outside the catalog.
WaveInCatalog(wave_id) == wave_id + 1 \in DOMAIN Waves

SpawnedWave(wave_id) ==
    [ e \in EnemySlots |->
        IF e \in DOMAIN Waves[wave_id + 1]
        THEN NewEnemy(Waves[wave_id + 1][e])
        ELSE NoEntity ]

\* StateTransition with NextState = Game: OnExit(Menu), then OnEnter(Game) =
\* setup_game_state (main.rs), init_enemy_waves and init_ui (enemy_wave_plugin.rs).
\* init_enemy_waves spawns wave 0 whatever ai_state.current_wave is.
EnterGame ==
    /\ ~panicked
    /\ phase = "idle"
    /\ next_state = "Game"
    /\ state = "Menu"
    /\ state' = "Game"
    /\ next_state' = "None"
    /\ sessions' = sessions + 1
    /\ game_player' = TRUE
    /\ player' = NewPlayer
    /\ enemies' = SpawnedWave(0)
    /\ player_hits' = [e \in EnemySlots |-> 0]
    /\ powerup_ledger' = NoLedger
    /\ last_spawned' = 0
    /\ wave_menu_requests' = 0
    /\ contacts' = {}
    /\ pickup_contacts' = 0
    /\ UNCHANGED << phase, pending, dt, bullets, pickups, deaths, shakes,
                    ai_state, cmds, panicked >>

\* StateTransition with NextState = Menu: OnExit(Game) = destroy_entities
\* (main.rs), destroy_ui, destroy_enemies, reset_ai_state (enemy_wave_plugin.rs).
ExitGame ==
    /\ ~panicked
    /\ phase = "idle"
    /\ next_state = "Menu"
    /\ state = "Game"
    /\ state' = "Menu"
    /\ next_state' = "None"
    /\ bullets' = [b \in BulletSlots |-> NoEntity]
    /\ enemies' = [e \in EnemySlots |-> NoEntity]
    /\ ai_state' = DefaultAIState
    /\ contacts' = {}
    /\ pickup_contacts' = 0
    /\ UNCHANGED << powerup_ledger, phase, pending, dt, sessions, game_player, player, pickups,
                    deaths, shakes, cmds, player_hits, last_spawned,
                    wave_menu_requests, panicked >>

\* The bullets after this frame's spawn commands: the new bullets take the
\* lowest free slots.
BulletsAfterSpawn(bs, n_player, n_lateral, n_enemy) ==
    IF n_player + n_lateral + n_enemy = 0 THEN bs
    ELSE [ b \in BulletSlots |->
           IF bs[b] # NoEntity THEN bs[b]
           ELSE LET i == Cardinality({ k \in BulletSlots :
                                         k <= b /\ bs[k] = NoEntity })
                IN IF i <= n_player THEN NewBullet(TRUE, FALSE)
                   ELSE IF i <= n_player + n_lateral THEN NewBullet(TRUE, TRUE)
                   ELSE IF i <= n_player + n_lateral + n_enemy
                        THEN NewBullet(FALSE, FALSE)
                   ELSE NoEntity ]

SumDeaths(ids) ==
    LET RECURSIVE Sum(_)
        Sum(S) == IF S = {} THEN 0
                  ELSE LET d == CHOOSE x \in S : TRUE
                       IN cmds.deaths[d] + Sum(S \ {d})
    IN Sum(ids)

\* Commands are applied system by system, in an order the source does not
\* fix between check_bullet_damage and detect_powerup_collisions.  The Insert
\* command panics when its entity is gone; Despawn and Remove do not.
InsertFindsEntity(despawn_first) ==
    ~(despawn_first /\ cmds.insert_powerup > 0
                    /\ PlayerId \in cmds.despawn_damageables)

\* What an enemy flying to its target covers in one frame: the velocity that
\* update_move_to_target has set (ENEMY_MOVE_VELOCITY * 10.) times the step of
\* the physics, 0.125 at 60 frames per second and 0.2 at most.
TravelSet == {5, 2 * Tolerance}

\* The enemy flies straight at its target and past it when the frame's travel
\* is longer than the distance left.
Hovering(distance, travel) == distance
Flown(distance, travel) ==
    IF distance >= travel THEN distance - travel ELSE travel - distance

\* The physics step on one enemy: Velocity.linvel moves the Transform.
Integrated(enemy, travel) ==
    IF enemy.distance # Unmeasured /\ enemy.linvel = "TOWARD_TARGET"
    THEN [ enemy EXCEPT !.distance = Flown(@, travel) ]
    ELSE enemy

\* End of Update: the queued Commands are applied to the World, and the
\* physics step moves the bodies.  The frame's delta and its events are over
\* with the frame.  The EntityDeath entities are counted up to MaxDeathNotes.
ApplyDeferred ==
    /\ phase = "update"
    /\ pending = {}
    /\ phase' = "idle"
    /\ \E despawn_first \in BOOLEAN :
          panicked' = (panicked \/ ~InsertFindsEntity(despawn_first))
    /\ player' =
         IF player = NoEntity \/ PlayerId \in cmds.despawn_damageables THEN NoEntity
         ELSE IF cmds.insert_powerup > 0
              THEN [player EXCEPT !.powerup =
                       [powerup |-> "DoubleShot", time_left |-> PowerupDuration]]
         ELSE IF cmds.remove_powerup THEN [player EXCEPT !.powerup = NoPowerup]
         ELSE player
    /\ \E travel \in TravelSet :
          enemies' =
            IF cmds.spawn_wave # NoWave THEN SpawnedWave(cmds.spawn_wave)
            ELSE [ e \in EnemySlots |->
                     IF enemies[e] = NoEntity \/ e \in cmds.despawn_damageables
                     THEN NoEntity
                     ELSE IF e \in cmds.remove_target
                          THEN [enemies[e] EXCEPT !.target = FALSE]
                          ELSE Integrated(enemies[e], travel) ]
    /\ player_hits' =
         IF cmds.spawn_wave # NoWave THEN [e \in EnemySlots |-> 0] ELSE player_hits
    /\ powerup_ledger' =
         IF player' = NoEntity \/ player'.powerup = NoPowerup THEN NoLedger
         ELSE IF cmds.insert_powerup > 0
              THEN [ powerup_ledger EXCEPT !.picked = PowerupDuration, !.elapsed = 0 ]
         ELSE powerup_ledger
    /\ bullets' =
         BulletsAfterSpawn(
            [ b \in BulletSlots |->
                IF b \in cmds.despawn_bullets THEN NoEntity ELSE bullets[b] ],
            cmds.spawn_player_bullets, cmds.spawn_lateral_bullets,
            cmds.spawn_enemy_bullets)
    /\ pickups' = pickups - cmds.despawn_pickups + cmds.spawn_pickups
    /\ deaths' =
         [ enemy |-> Min(MaxDeathNotes,
                         deaths.enemy - cmds.despawn_deaths + SumDeaths(EnemySlots)),
           player |-> Min(MaxDeathNotes, deaths.player + cmds.deaths[PlayerId]) ]
    /\ cmds' = NoCommands
    /\ dt' = 0
    /\ shakes' = 0
    /\ contacts' = {}
    /\ pickup_contacts' = 0
    /\ UNCHANGED << state, next_state, pending, sessions, game_player, ai_state,
                    last_spawned, wave_menu_requests >>

\* ------------------------------------------------- main.rs: systems
\* player_controls: how many bullets one shot spawns (spawn_positions).
SingleShot(powerup) == 1
ShotPattern(powerup) ==
    IF powerup = NoPowerup THEN 1
    ELSE IF powerup.powerup = "DoubleShot" THEN 2
    ELSE 3

\* NextState::set(state): the request replaces whatever was requested before.
RequestDropped(requested, new_state) == requested
NextStateSet(requested, new_state) == new_state

\* player_controls.  A/D only move the player's Transform, which the model
\* does not hold; Space is the input.  A shot is taken while fewer than
\* MaxBullets bullets are in flight.
PlayerControls ==
    /\ Runs("player_controls")
    /\ IF ~game_player
       THEN UNCHANGED << next_state, player, cmds >>
       ELSE IF player = NoEntity
       THEN /\ next_state' = NextStateSet(next_state, "Menu")
            /\ UNCHANGED << player, cmds >>
       ELSE LET can_shoot == player.bullet_cooldown <= 0
                cooled == IF can_shoot THEN player.bullet_cooldown
                          ELSE player.bullet_cooldown - dt
                shots == ShotPattern(player.powerup)
                queued == cmds.spawn_player_bullets + cmds.spawn_lateral_bullets
                            + cmds.spawn_enemy_bullets
            IN \E space \in BOOLEAN :
                 /\ space => Cardinality(LiveBullets) + queued < MaxBullets
                 /\ IF can_shoot /\ space
                    THEN /\ player' = [player EXCEPT
                                         !.bullet_cooldown = BulletCooldownTimer]
                         /\ cmds' = [cmds EXCEPT
                                       !.spawn_player_bullets = @ + 1,
                                       !.spawn_lateral_bullets = @ + shots - 1]
                    ELSE /\ player' = [player EXCEPT !.bullet_cooldown = cooled]
                         /\ UNCHANGED cmds
                 /\ UNCHANGED next_state
    /\ UNCHANGED << powerup_ledger, state, phase, dt, sessions, game_player, enemies, bullets,
                    pickups, deaths, shakes, ai_state, contacts,
                    pickup_contacts, player_hits, last_spawned,
                    wave_menu_requests, panicked >>

\* u32::checked_sub(damage).unwrap_or(0)
UncheckedDamage(health, damage) == health - damage
ApplyDamage(health, damage) ==
    IF health >= damage THEN health - damage ELSE 0

\* The colliders: a player bullet fired straight ahead starts 0.5 in front of
\* the player (radius 0.3) and flies away from it; every other pair may overlap.
MayIntersect(d, b) ==
    ~(d = PlayerId /\ bullets[b].is_player_bullet /\ ~bullets[b].lateral)

\* The subsets of S with at most k elements.
RECURSIVE SubsetsUpTo(_, _)
SubsetsUpTo(S, k) ==
    IF k = 0 THEN { {} }
    ELSE LET smaller == SubsetsUpTo(S, k - 1)
         IN smaller \cup { t \cup {x} : t \in smaller, x \in S }

\* What rapier_context.intersection_pair may answer Some(true) for in one
\* frame: at most MaxContacts pairs of a live damageable and a live bullet.
ContactSets ==
    SubsetsUpTo({ p \in { d \in DamageableIds : IsLive(d) } \X LiveBullets :
                    MayIntersect(p[1], p[2]) },
                MaxContacts)

\* check_bullet_damage, the inner loop of one damageable: the bullets reported
\* as intersecting it, in query order, which is slot order here.  The slots of
\* the bullets are interchangeable, so that every order is met.
ContactsOf(c, d) == SetToSeq({ b \in LiveBullets : << d, b >> \in c })

RECURSIVE DamageLoop(_, _, _, _)
DamageLoop(is_player, bs, i, acc) ==
    IF i > Len(bs) THEN acc
    ELSE LET bullet == bullets[bs[i]]
             health == ApplyDamage(acc.health, bullet.damage)
             cross == is_player # bullet.is_player_bullet
             entity_died == cross /\ health = 0
         IN DamageLoop(is_player, bs, i + 1,
              [ health |-> health,
                despawn_bullets |->
                    IF cross THEN acc.despawn_bullets \cup {bs[i]}
                    ELSE acc.despawn_bullets,
                despawn_self |-> acc.despawn_self \/ entity_died,
                deaths |-> acc.deaths + (IF entity_died THEN 1 ELSE 0),
                hit_small |-> acc.hit_small + (IF cross /\ ~entity_died THEN 1 ELSE 0),
                hit_large |-> acc.hit_large + (IF entity_died THEN 1 ELSE 0),
                shakes |-> acc.shakes + (IF cross THEN 1 ELSE 0),
                cross_hits |-> acc.cross_hits + (IF cross THEN 1 ELSE 0) ])

Resolved(c, d) ==
    DamageLoop(IsPlayerDamageable(d), ContactsOf(c, d), 1,
        [ health |-> HealthOf(d), despawn_bullets |-> {}, despawn_self |-> FALSE,
          deaths |-> 0, hit_small |-> 0, hit_large |-> 0, shakes |-> 0,
          cross_hits |-> 0 ])

RECURSIVE SumOver(_, _)
SumOver(S, f) ==
    IF S = {} THEN 0
    ELSE LET x == CHOOSE y \in S : TRUE IN f[x] + SumOver(S \ {x}, f)

\* check_bullet_damage: every live damageable against every live bullet.
CheckBulletDamage ==
    /\ Runs("check_bullet_damage")
    /\ \E c \in ContactSets :
       LET live == { d \in DamageableIds : IsLive(d) }
           r == [ d \in live |-> Resolved(c, d) ]
       IN /\ contacts' = c
          /\ player' = IF player = NoEntity THEN player
                       ELSE [player EXCEPT !.health = r[PlayerId].health]
          /\ enemies' = [ e \in EnemySlots |->
                            IF enemies[e] = NoEntity THEN NoEntity
                            ELSE [enemies[e] EXCEPT !.health = r[e].health] ]
          /\ player_hits' = [ e \in EnemySlots |->
                                IF enemies[e] = NoEntity THEN player_hits[e]
                                ELSE player_hits[e] + r[e].cross_hits ]
          /\ shakes' = shakes + SumOver(live, [ d \in live |-> r[d].shakes ])
          /\ cmds' = [ cmds EXCEPT
                !.despawn_bullets = @ \cup UNION { r[d].despawn_bullets : d \in live },
                !.despawn_damageables = @ \cup { d \in live : r[d].despawn_self },
                !.deaths = [ d \in DamageableIds |->
                               IF d \in live THEN @[d] + r[d].deaths ELSE @[d] ],
                !.hit_small = @ + SumOver(live, [ d \in live |-> r[d].hit_small ]),
                !.hit_large = @ + SumOver(live, [ d \in live |-> r[d].hit_large ]) ]
    /\ UNCHANGED << powerup_ledger, state, next_state, phase, dt, sessions, game_player, bullets,
                    pickups, deaths, ai_state, pickup_contacts, last_spawned,
                    wave_menu_requests, panicked >>

\* bullet_controls: one bullet after delta_time, player bullets toward -z.
Parked(bullet, delta_time) == bullet
Advance(bullet, delta_time) ==
    LET direction == IF bullet.up_direction THEN -1 ELSE 1
    IN [ bullet EXCEPT !.z = @ + direction * bullet.velocity * delta_time ]

\* bullet_controls
BulletControls ==
    /\ Runs("bullet_controls")
    /\ bullets' = [ b \in BulletSlots |->
                      IF bullets[b] = NoEntity THEN NoEntity
                      ELSE Advance(bullets[b], dt) ]
    /\ UNCHANGED << powerup_ledger, state, next_state, phase, dt, sessions,
                    game_player, player, enemies, pickups, deaths, shakes,
                    ai_state, contacts, pickup_contacts, cmds, player_hits,
                    last_spawned, wave_menu_requests, panicked >>

\* destroy_bullets: f32::abs(translation.z) > 20.
OutOfBounds(z) == (IF z < 0 THEN -z ELSE z) > ZBound

\* destroy_bullets
DestroyBullets ==
    /\ Runs("destroy_bullets")
    /\ cmds' = [ cmds EXCEPT
                   !.despawn_bullets =
                       @ \cup { b \in LiveBullets : OutOfBounds(bullets[b].z) } ]
    /\ UNCHANGED << powerup_ledger, state, next_state, phase, dt, sessions,
                    game_player, player, enemies, bullets, pickups, deaths,
                    shakes, ai_state, contacts, pickup_contacts, player_hits,
                    last_spawned, wave_menu_requests, panicked >>

\* ------------------------------------- enemy_wave_plugin.rs: systems
\* update_enemies: move_to_target.is_empty(), the patrol waits for the whole
\* wave to stand in formation.
FormationOpen == TRUE
SomeoneArrived == \E e \in LiveEnemies : ~enemies[e].target
FormationComplete == \A e \in LiveEnemies : ~enemies[e].target

\* update_enemies: linvel.x of a patrolling enemy.
PatrolVelocity(moving_left) == IF moving_left THEN "LEFT" ELSE "RIGHT"

\* update_enemies: ai_state.move_timer <= 0.0
TimerBelowZero(move_timer) == move_timer < 0
TimerOver(move_timer) == move_timer <= 0

\* update_enemies: enemy.shot_cooldown_timer <= 0.0
AlwaysOver(shot_cooldown_timer) == TRUE
CooldownOver(shot_cooldown_timer) == shot_cooldown_timer <= 0

\* update_enemies.  The query is Without<MoveToTarget>; an enemy whose timer
\* ran out fires with ENEMY_FIRE_PROBABILITY and draws a new timer.  The
\* enemies fire while fewer than MaxBullets bullets are in flight.
UpdateEnemies ==
    /\ Runs("update_enemies")
    /\ IF ~FormationComplete
       THEN UNCHANGED << ai_state, enemies, cmds >>
       ELSE LET move_timer == ai_state.move_timer - dt
                swap == TimerOver(move_timer)
                moving_left == IF swap THEN ~ai_state.moving_left
                               ELSE ai_state.moving_left
                patrolling == { e \in LiveEnemies : ~enemies[e].target }
                queued == cmds.spawn_player_bullets + cmds.spawn_lateral_bullets
                            + cmds.spawn_enemy_bullets
            IN /\ ai_state' = [ ai_state EXCEPT
                                  !.move_timer = IF swap THEN EnemyMoveDuration
                                                 ELSE move_timer,
                                  !.moving_left = moving_left ]
               /\ \E spawn_draw \in [patrolling -> CooldownDraws],
                     reset_draw \in [patrolling -> CooldownDraws],
                     fires \in SUBSET patrolling :
                    LET cooled(e) ==
                            (IF enemies[e].shot_cooldown_timer = PendingDraw
                             THEN spawn_draw[e]
                             ELSE enemies[e].shot_cooldown_timer) - dt
                        due == { e \in patrolling : CooldownOver(cooled(e)) }
                    IN /\ fires \subseteq due
                       /\ Cardinality(LiveBullets) + queued + Cardinality(fires)
                             <= MaxBullets
                       /\ enemies' =
                            [ e \in EnemySlots |->
                                IF e \in patrolling
                                THEN [ enemies[e] EXCEPT
                                         !.linvel = PatrolVelocity(moving_left),
                                         !.shot_cooldown_timer =
                                             IF e \in due THEN reset_draw[e]
                                             ELSE cooled(e),
                                         !.waited =
                                             IF e \in due THEN 0 ELSE @ + dt ]
                                ELSE enemies[e] ]
                       /\ cmds' = [ cmds EXCEPT
                                      !.spawn_enemy_bullets = @ + Cardinality(fires),
                                      !.fire_decisions = @ \cup due,
                                      !.fired = @ \cup fires ]
    /\ UNCHANGED << powerup_ledger, state, next_state, phase, dt, sessions,
                    game_player, player, bullets, pickups, deaths, shakes,
                    contacts, pickup_contacts, player_hits, last_spawned,
                    wave_menu_requests, panicked >>

\* update_move_to_target: target.target.distance(transform.translation) > 0.10
\* is false.
WithinTolerance(distance) == distance <= Tolerance

\* update_move_to_target: target.distance(translation) <= 0.10 can only hold
\* for an enemy that has been flying to its target; spawn_wave puts a new
\* enemy at least 1.0 away from it.
MayHaveArrived(e) ==
    /\ enemies[e] # NoEntity /\ enemies[e].target
    /\ enemies[e].linvel = "TOWARD_TARGET"
    /\ enemies[e].distance # Unmeasured => WithinTolerance(enemies[e].distance)

\* The enemies whose measured distance is within the tolerance.
HasArrived(e) ==
    MayHaveArrived(e) /\ enemies[e].distance # Unmeasured

\* update_move_to_target: an enemy that has arrived is stopped, put on its
\* target and loses its MoveToTarget; any other is sent toward its target.
UpdateMoveToTarget ==
    /\ Runs("update_move_to_target")
    /\ \E arrived \in SUBSET { e \in EnemySlots : MayHaveArrived(e) } :
          /\ { e \in EnemySlots : HasArrived(e) } \subseteq arrived
          /\ enemies' =
               [ e \in EnemySlots |->
                   IF enemies[e] = NoEntity \/ ~enemies[e].target THEN enemies[e]
                   ELSE IF e \in arrived
                        THEN [ enemies[e] EXCEPT
                                 !.linvel = "ZERO",
                                 !.distance = IF @ = Unmeasured THEN @ ELSE 0 ]
                   ELSE [enemies[e] EXCEPT !.linvel = "TOWARD_TARGET"] ]
          /\ cmds' = [cmds EXCEPT !.remove_target = @ \cup arrived]
    /\ UNCHANGED << powerup_ledger, state, next_state, phase, dt, sessions,
                    game_player, player, bullets, pickups, deaths, shakes,
                    ai_state, contacts, pickup_contacts, player_hits,
                    last_spawned, wave_menu_requests, panicked >>

\* change_wave: enemies.is_empty(), over the entities alive when Update began.
AlwaysCleared == TRUE
WaveCleared == LiveEnemies = {}

\* change_wave: the incremented index is past the catalog.
PastCatalog(current_wave) == current_wave > Len(Waves)
AllWavesDone(current_wave) == current_wave >= Len(Waves)

\* change_wave.  NewWaveEvent only feeds the wave label of the UI.
ChangeWave ==
    /\ Runs("change_wave")
    /\ IF ~WaveCleared
       THEN UNCHANGED << ai_state, next_state, cmds, last_spawned,
                         wave_menu_requests, panicked >>
       ELSE LET current_wave == ai_state.current_wave + 1
            IN /\ ai_state' = [ai_state EXCEPT !.current_wave = current_wave]
               /\ IF AllWavesDone(current_wave)
                  THEN /\ next_state' = "Menu"
                       /\ wave_menu_requests' = wave_menu_requests + 1
                       /\ UNCHANGED << cmds, last_spawned, panicked >>
                  ELSE IF WaveInCatalog(current_wave)
                  THEN /\ cmds' = [cmds EXCEPT !.spawn_wave = current_wave]
                       /\ last_spawned' = current_wave
                       /\ UNCHANGED << next_state, wave_menu_requests, panicked >>
                  ELSE /\ panicked' = TRUE
                       /\ UNCHANGED << next_state, cmds, last_spawned,
                                       wave_menu_requests >>
    /\ UNCHANGED << powerup_ledger, state, phase, dt, sessions, game_player, player, enemies,
                    bullets, pickups, deaths, shakes, contacts, pickup_contacts,
                    player_hits >>

\* ------------------------------------------- powerups.rs: systems
\* update_powerups: the player's PowerupComponent runs down; the removal of an
\* expired component is deferred.
UpdatePowerups ==
    /\ Runs("update_powerups")
    /\ IF player = NoEntity \/ player.powerup = NoPowerup
       THEN UNCHANGED << player, cmds, powerup_ledger >>
       ELSE LET time_left == player.powerup.time_left - dt
            IN /\ player' = [player EXCEPT !.powerup.time_left = time_left]
               /\ cmds' = [cmds EXCEPT
                             !.remove_powerup = @ \/ time_left < 0]
               /\ powerup_ledger' = [powerup_ledger EXCEPT !.elapsed = @ + dt]
    /\ UNCHANGED << state, next_state, phase, dt, sessions, game_player,
                    enemies, bullets, pickups, deaths, shakes, ai_state,
                    contacts, pickup_contacts, player_hits, last_spawned,
                    wave_menu_requests, panicked >>

\* spawn_powerups: how many pickups the rolls for notes EntityDeaths can
\* drop, each roll one pickup with probability 0.1.
TwoPerNote(notes) == 0..(2 * notes)
RollOutcomes(notes) == 0..notes

\* spawn_powerups: every EntityDeath of an enemy is consumed and drops a
\* DoubleShot pickup with probability 0.1; an EntityDeath of the player is
\* skipped and stays.  At most MaxPickups pickups are on the field.
SpawnPowerups ==
    /\ Runs("spawn_powerups")
    /\ \E dropped \in RollOutcomes(deaths.enemy) :
          /\ pickups + cmds.spawn_pickups + dropped <= MaxPickups
          /\ cmds' = [ cmds EXCEPT
                         !.spawn_pickups = @ + dropped,
                         !.despawn_deaths = deaths.enemy ]
    /\ UNCHANGED << powerup_ledger, state, next_state, phase, dt, sessions,
                    game_player, player, enemies, bullets, pickups, deaths,
                    shakes, ai_state, contacts, pickup_contacts, player_hits,
                    last_spawned, wave_menu_requests, panicked >>

\* detect_powerup_collisions: the kind after one more pickup.
Upgraded(powerup) ==
    IF powerup = "DoubleShot" THEN "TripleShot" ELSE powerup

\* detect_powerup_collisions: current_powerup.time_left += powerup.time_left
ReplacedTime(time_left, pickup_time) == pickup_time
ExtendedTime(time_left, pickup_time) == time_left + pickup_time

\* detect_powerup_collisions: the attached component after n pickups, each a
\* DoubleShot with PowerupDuration left.
RECURSIVE Consumed(_, _)
Consumed(component, n) ==
    IF n = 0 THEN component
    ELSE Consumed([ powerup |-> Upgraded(component.powerup),
                    time_left |-> ExtendedTime(component.time_left, PowerupDuration) ],
                  n - 1)

\* detect_powerup_collisions: how many of the n pickups that intersect a
\* player holding powerup are despawned: the despawn follows the if/else.
KeptAtTopTier(powerup, n) ==
    IF powerup # NoPowerup /\ powerup.powerup = "TripleShot" THEN 0 ELSE n
DespawnedPickups(powerup, n) == n

\* detect_powerup_collisions: n of the pickups on the field intersect the
\* player.  An attached component is upgraded in place; otherwise the insert
\* of the pickup's component is deferred.  Every such pickup is despawned.
DetectPowerupCollisions ==
    /\ Runs("detect_powerup_collisions")
    /\ IF player = NoEntity
       THEN UNCHANGED << player, cmds, pickup_contacts, powerup_ledger >>
       ELSE \E n \in 0..pickups :
              /\ pickup_contacts' = n
              /\ IF player.powerup # NoPowerup
                 THEN /\ player' = [player EXCEPT !.powerup = Consumed(@, n)]
                      /\ powerup_ledger' =
                           [powerup_ledger EXCEPT !.consumed = @ + n,
                                                  !.picked = @ + n * PowerupDuration]
                      /\ cmds' = [cmds EXCEPT
                                    !.despawn_pickups =
                                        @ + DespawnedPickups(player.powerup, n)]
                 ELSE /\ cmds' = [cmds EXCEPT
                                    !.insert_powerup = @ + n,
                                    !.despawn_pickups =
                                        @ + DespawnedPickups(player.powerup, n)]
                      /\ powerup_ledger' = [powerup_ledger EXCEPT !.consumed = @ + n]
                      /\ UNCHANGED player
    /\ UNCHANGED << state, next_state, phase, dt, sessions, game_player,
                    enemies, bullets, pickups, deaths, shakes, ai_state,
                    contacts, player_hits, last_spawned, wave_menu_requests,
                    panicked >>

\* ------------------------------------------------------- SpecDamage
\* Damage resolution (main.rs: check_bullet_damage) from a session in progress:
\* wave 0 stands in formation and patrols, the player has not been hit yet
\* or is one hit from death, and up to MaxBullets bullets of either faction are
\* in flight.
DamageSystems == { "check_bullet_damage" }

HealthsInProgress == { 1, PlayerHealth }

BulletsInFlight ==
    { bs \in [ BulletSlots ->
                 { NoEntity, NewBullet(FALSE, FALSE), NewBullet(TRUE, FALSE) } ] :
        \A b \in BulletSlots : b > MaxBullets => bs[b] = NoEntity }

InitDamage ==
    /\ state = "Game"
    /\ next_state = "None"
    /\ phase = "idle"
    /\ pending = {}
    /\ dt = 0
    /\ sessions = 1
    /\ game_player = TRUE
    /\ bullets \in BulletsInFlight
    /\ \E health \in HealthsInProgress :
          player = [ NewPlayer EXCEPT
                       !.health = health,
                       !.bullet_cooldown =
                           IF \E b \in BulletSlots : bullets[b] = NewBullet(TRUE, FALSE)
                           THEN BulletCooldownTimer ELSE 0 ]
    /\ enemies = [ e \in EnemySlots |->
                     IF e \in DOMAIN Waves[1]
                     THEN [ NewEnemy(Waves[1][e]) EXCEPT
                              !.target = FALSE, !.linvel = "LEFT",
                              !.shot_cooldown_timer = 8 ]
                     ELSE NoEntity ]
    /\ pickups = 0
    /\ deaths = [enemy |-> 0, player |-> 0]
    /\ shakes = 0
    /\ ai_state = [ current_wave |-> 0, move_timer |-> EnemyMoveDuration,
                    moving_left |-> TRUE ]
    /\ contacts = {}
    /\ pickup_contacts = 0
    /\ cmds = NoCommands
    /\ player_hits = [e \in EnemySlots |-> 0]
    /\ powerup_ledger = NoLedger
    /\ last_spawned = 0
    /\ wave_menu_requests = 0
    /\ panicked = FALSE

NextDamage ==
    \/ BeginUpdate(DamageSystems)
    \/ CheckBulletDamage
    \/ ApplyDeferred

SpecDamage == InitDamage /\ [][NextDamage]_vars

\* --------------------------------------------------------- SpecWave
\* Wave progression (enemy_wave_plugin.rs: change_wave) from the start of the
\* application: the player shoots the waves down, session after session.
WaveSystems ==
    { "player_controls", "check_bullet_damage", "change_wave" }

NextWave ==
    \/ PlayPressed
    \/ EnterGame
    \/ BeginUpdate(WaveSystems)
    \/ PlayerControls
    \/ CheckBulletDamage
    \/ ChangeWave
    \/ ApplyDeferred
    \/ ExitGame

SpecWave == AppStart /\ [][NextWave]_vars

\* ---------------------------------------------------- SpecFormation
\* Formation and patrol (enemy_wave_plugin.rs: update_enemies and
\* update_move_to_target) from the start of the application.
FormationSystems == { "update_enemies", "update_move_to_target" }

NextFormation ==
    \/ PlayPressed
    \/ EnterGame
    \/ BeginUpdate(FormationSystems)
    \/ UpdateEnemies
    \/ UpdateMoveToTarget
    \/ ApplyDeferred

SpecFormation == AppStart /\ [][NextFormation]_vars

\* ------------------------------------------------------ SpecPowerup
\* Power-ups (powerups.rs) from a session in progress: the last enemies of
\* wave 0 were shot down in the frame before, their EntityDeath notes are
\* pending, and pickups dropped earlier are on the field.
PowerupSystems ==
    { "update_powerups", "spawn_powerups", "detect_powerup_collisions" }

InitPowerup ==
    /\ state = "Game"
    /\ next_state = "None"
    /\ phase = "idle"
    /\ pending = {}
    /\ dt = 0
    /\ sessions = 1
    /\ game_player = TRUE
    /\ player = NewPlayer
    /\ enemies = [e \in EnemySlots |-> NoEntity]
    /\ bullets = [b \in BulletSlots |-> NoEntity]
    /\ pickups \in 0..MaxPickups
    /\ \E notes \in 1..MaxDeathNotes : deaths = [enemy |-> notes, player |-> 0]
    /\ shakes = 0
    /\ ai_state = [ current_wave |-> 0, move_timer |-> EnemyMoveDuration,
                    moving_left |-> TRUE ]
    /\ contacts = {}
    /\ pickup_contacts = 0
    /\ cmds = NoCommands
    /\ player_hits = [e \in EnemySlots |-> 0]
    /\ powerup_ledger = NoLedger
    /\ last_spawned = 0
    /\ wave_menu_requests = 0
    /\ panicked = FALSE

NextPowerup ==
    \/ BeginUpdate(PowerupSystems)
    \/ UpdatePowerups
    \/ SpawnPowerups
    \/ DetectPowerupCollisions
    \/ ApplyDeferred

SpecPowerup == InitPowerup /\ [][NextPowerup]_vars

\* --------------------------------------------------------- SpecRace
\* The systems that query the player (main.rs: player_controls and
\* check_bullet_damage, powerups.rs: detect_powerup_collisions) late in a
\* session: the last wave of the catalog patrols, each enemy one hit from
\* death, the player is one hit from death, bullets of both factions are in
\* flight and a pickup is on the field.
RaceSystems ==
    { "player_controls", "check_bullet_damage", "detect_powerup_collisions",
      "change_wave" }

LastWave == Len(Waves) - 1

\* The enemies of the last wave, in formation, each one hit from death.
LastWavePatrolling ==
    [ e \in EnemySlots |->
        IF e \in DOMAIN Waves[LastWave + 1]
        THEN [ NewEnemy(Waves[LastWave + 1][e]) EXCEPT
                 !.health = 1,
                 !.target = FALSE, !.linvel = "LEFT", !.shot_cooldown_timer = 8 ]
        ELSE NoEntity ]

InitRace ==
    /\ state = "Game"
    /\ next_state = "None"
    /\ phase = "idle"
    /\ pending = {}
    /\ dt = 0
    /\ sessions = 1
    /\ game_player = TRUE
    /\ bullets \in BulletsInFlight
    /\ player = [ NewPlayer EXCEPT
                    !.health = 1,
                    !.bullet_cooldown =
                        IF \E b \in BulletSlots : bullets[b] = NewBullet(TRUE, FALSE)
                        THEN BulletCooldownTimer ELSE 0 ]
    /\ enemies = LastWavePatrolling
    /\ pickups = 1
    /\ deaths = [enemy |-> 0, player |-> 0]
    /\ shakes = 0
    /\ ai_state = [ current_wave |-> LastWave, move_timer |-> EnemyMoveDuration,
                    moving_left |-> TRUE ]
    /\ contacts = {}
    /\ pickup_contacts = 0
    /\ cmds = NoCommands
    /\ player_hits = [ e \in EnemySlots |->
                         IF e \in DOMAIN Waves[LastWave + 1] THEN 1 ELSE 0 ]
    /\ powerup_ledger = NoLedger
    /\ last_spawned = LastWave
    /\ wave_menu_requests = 0
    /\ panicked = FALSE

NextRace ==
    \/ BeginUpdate(RaceSystems)
    \/ PlayerControls
    \/ CheckBulletDamage
    \/ DetectPowerupCollisions
    \/ ChangeWave
    \/ ApplyDeferred

SpecRace == InitRace /\ [][NextRace]_vars

\* ------------------------------------------------------ SpecSession
\* The end of a session and the start of the next one.  The frame in which
\* the session's end was requested is over: either the player was shot in the
\* frame before and player_controls has asked for the menu, with the last wave
\* still on the field, or change_wave has found the last wave cleared.
\* Bullets of both factions are in flight, a pickup that has drifted past the
\* player may be on the field, and an enemy shot in this last frame has left
\* its EntityDeath.  In the next session the enemies hold their fire and the
\* player does not shoot.
SessionSystems ==
    { "check_bullet_damage", "change_wave", "update_powerups",
      "spawn_powerups", "detect_powerup_collisions" }

InitSession ==
    /\ state = "Game"
    /\ next_state = "Menu"
    /\ phase = "idle"
    /\ pending = {}
    /\ dt = 0
    /\ sessions = 1
    /\ game_player = TRUE
    /\ bullets \in BulletsInFlight
    /\ pickups \in {0, 1}
    /\ \E player_shot \in BOOLEAN :
          IF player_shot
          THEN /\ player = NoEntity
               /\ enemies = LastWavePatrolling
               /\ \E notes \in {0, 1} : deaths = [enemy |-> notes, player |-> 1]
               /\ ai_state = [ current_wave |-> LastWave,
                               move_timer |-> EnemyMoveDuration,
                               moving_left |-> FALSE ]
               /\ wave_menu_requests = 0
          ELSE /\ \E health \in HealthsInProgress :
                     player = [ NewPlayer EXCEPT !.health = health ]
               /\ enemies = [e \in EnemySlots |-> NoEntity]
               /\ deaths = [enemy |-> 0, player |-> 0]
               /\ ai_state = [ current_wave |-> Len(Waves),
                               move_timer |-> EnemyMoveDuration,
                               moving_left |-> FALSE ]
               /\ wave_menu_requests = 1
    /\ shakes = 0
    /\ contacts = {}
    /\ pickup_contacts = 0
    /\ cmds = NoCommands
    /\ player_hits = [e \in EnemySlots |-> 0]
    /\ powerup_ledger = NoLedger
    /\ last_spawned = LastWave
    /\ panicked = FALSE

NextSession ==
    \/ ExitGame
    \/ PlayPressed
    \/ EnterGame
    \/ BeginUpdate(SessionSystems)
    \/ CheckBulletDamage
    \/ ChangeWave
    \/ UpdatePowerups
    \/ SpawnPowerups
    \/ DetectPowerupCollisions
    \/ ApplyDeferred

SpecSession == InitSession /\ [][NextSession]_vars

\* -------------------------------------------------------- SpecShots
\* The player's shots (main.rs: player_controls) with the power-ups
\* (powerups.rs), from the same point of a session as SpecPowerup.
ShotSystems ==
    { "player_controls", "update_powerups", "spawn_powerups",
      "detect_powerup_collisions" }

NextShots ==
    \/ BeginUpdate(ShotSystems)
    \/ PlayerControls
    \/ UpdatePowerups
    \/ SpawnPowerups
    \/ DetectPowerupCollisions
    \/ ApplyDeferred

SpecShots == InitPowerup /\ [][NextShots]_vars

\* ------------------------------------------------------ SpecBullets
\* Bullet lifecycle (main.rs: bullet_controls, destroy_bullets and
\* check_bullet_damage) from a session in progress: the last enemy of wave 0
\* patrols, one hit from death, and the player, the enemy or both have just
\* fired: the bullets are where spawn_bullet has put them.  Bevy's runner starts a frame after every frame, and each frame runs
\* every system that is due.
BulletSystems == { "bullet_controls", "check_bullet_damage", "destroy_bullets" }

InitBullets ==
    /\ state = "Game"
    /\ next_state = "None"
    /\ phase = "idle"
    /\ pending = {}
    /\ dt = 0
    /\ sessions = 1
    /\ game_player = TRUE
    /\ \E fired_by_player, fired_by_enemy \in BOOLEAN :
          /\ fired_by_player \/ fired_by_enemy
          /\ bullets = BulletsAfterSpawn([b \in BulletSlots |-> NoEntity],
                                         IF fired_by_player THEN 1 ELSE 0, 0,
                                         IF fired_by_enemy THEN 1 ELSE 0)
    /\ player = [ NewPlayer EXCEPT !.bullet_cooldown = BulletCooldownTimer ]
    /\ enemies = [ e \in EnemySlots |->
                     IF e = 1
                     THEN [ NewEnemy(Waves[1][e]) EXCEPT
                              !.health = 1,
                              !.target = FALSE, !.linvel = "LEFT",
                              !.shot_cooldown_timer = 8 ]
                     ELSE NoEntity ]
    /\ pickups = 0
    /\ deaths = [enemy |-> 0, player |-> 0]
    /\ shakes = 0
    /\ ai_state = [ current_wave |-> 0, move_timer |-> EnemyMoveDuration,
                    moving_left |-> TRUE ]
    /\ contacts = {}
    /\ pickup_contacts = 0
    /\ cmds = NoCommands
    /\ player_hits = [e \in EnemySlots |-> IF e = 1 THEN 1 ELSE 0]
    /\ powerup_ledger = NoLedger
    /\ last_spawned = 0
    /\ wave_menu_requests = 0
    /\ panicked = FALSE

NextBullets ==
    \/ BeginUpdate(BulletSystems)
    \/ BulletControls
    \/ CheckBulletDamage
    \/ DestroyBullets
    \/ ApplyDeferred

SpecBullets == InitBullets /\ [][NextBullets]_vars /\ WF_vars(NextBullets)

\* ------------------------------------------------------ SpecForming
\* Forming up (enemy_wave_plugin.rs: update_move_to_target, main.rs:
\* check_bullet_damage) a few frames after wave 0 was spawned: every
\* enemy has arrived but the first two, which still hold their MoveToTarget
\* and fly toward it, a little more than one or two frames' travel away, and
\* the player has fired two bullets or none.  Bevy's runner starts a frame after every frame, and each frame runs
\* every system that is due.
FormingSystems == { "update_move_to_target", "check_bullet_damage" }

\* The enemies of wave 0 that are still on their way; the others stand on
\* their targets.
StillForming == { e \in DOMAIN Waves[1] : e <= 2 }

FormingDistances == { 2 * Tolerance + 3, 3 * Tolerance + 1 }

InitForming ==
    /\ state = "Game"
    /\ next_state = "None"
    /\ phase = "idle"
    /\ pending = {}
    /\ dt = 0
    /\ sessions = 1
    /\ game_player = TRUE
    /\ \E fired \in {0, 2} :
          bullets = BulletsAfterSpawn([b \in BulletSlots |-> NoEntity], fired, 0, 0)
    /\ player = [ NewPlayer EXCEPT !.bullet_cooldown = BulletCooldownTimer ]
    /\ \E distance \in [ StillForming -> FormingDistances ] :
          enemies = [ e \in EnemySlots |->
                        IF e \in StillForming
                        THEN [ NewEnemy(Waves[1][e]) EXCEPT
                                 !.linvel = "TOWARD_TARGET",
                                 !.distance = distance[e] ]
                        ELSE IF e \in DOMAIN Waves[1]
                        THEN [ NewEnemy(Waves[1][e]) EXCEPT
                                 !.target = FALSE, !.distance = 0 ]
                        ELSE NoEntity ]
    /\ pickups = 0
    /\ deaths = [enemy |-> 0, player |-> 0]
    /\ shakes = 0
    /\ ai_state = DefaultAIState
    /\ contacts = {}
    /\ pickup_contacts = 0
    /\ cmds = NoCommands
    /\ player_hits = [e \in EnemySlots |-> 0]
    /\ powerup_ledger = NoLedger
    /\ last_spawned = 0
    /\ wave_menu_requests = 0
    /\ panicked = FALSE

NextForming ==
    \/ BeginUpdate(FormingSystems)
    \/ UpdateMoveToTarget
    \/ CheckBulletDamage
    \/ ApplyDeferred

SpecForming == InitForming /\ [][NextForming]_vars /\ WF_vars(NextForming)

\* --------------------------------------------------------- SpecGate
\* The patrol gate (enemy_wave_plugin.rs: update_enemies and
\* update_move_to_target, main.rs: check_bullet_damage) a few frames after
\* wave 0 was spawned: every enemy still holds its MoveToTarget and flies
\* toward it, and the player has fired two bullets at the wave.  The wave is
\* followed until the patrol has made its first turn, which is in the first
\* frame that finds the gate open.
GateSystems ==
    { "update_enemies", "update_move_to_target", "check_bullet_damage" }

\* The frames up to the patrol's first turn.
GateFrame == BeginUpdate(GateSystems) /\ ai_state.moving_left

InitGate ==
    /\ state = "Game"
    /\ next_state = "None"
    /\ phase = "idle"
    /\ pending = {}
    /\ dt = 0
    /\ sessions = 1
    /\ game_player = TRUE
    /\ bullets = BulletsAfterSpawn([b \in BulletSlots |-> NoEntity], 2, 0, 0)
    /\ player = [ NewPlayer EXCEPT !.bullet_cooldown = BulletCooldownTimer ]
    /\ enemies = [ e \in EnemySlots |->
                     IF e \in DOMAIN Waves[1]
                     THEN [ NewEnemy(Waves[1][e]) EXCEPT !.linvel = "TOWARD_TARGET" ]
                     ELSE NoEntity ]
    /\ pickups = 0
    /\ deaths = [enemy |-> 0, player |-> 0]
    /\ shakes = 0
    /\ ai_state = DefaultAIState
    /\ contacts = {}
    /\ pickup_contacts = 0
    /\ cmds = NoCommands
    /\ player_hits = [e \in EnemySlots |-> 0]
    /\ powerup_ledger = NoLedger
    /\ last_spawned = 0
    /\ wave_menu_requests = 0
    /\ panicked = FALSE

NextGate ==
    \/ GateFrame
    \/ UpdateEnemies
    \/ UpdateMoveToTarget
    \/ CheckBulletDamage
    \/ ApplyDeferred

SpecGate == InitGate /\ [][NextGate]_vars

\* ------------------------------------------- properties of SpecDamage
\* A step in which check_bullet_damage runs.
CheckStep ==
    "check_bullet_damage" \in pending /\ "check_bullet_damage" \notin pending'

\* The bullets of the other faction among the pairs c reports for d.
CrossBullets(c, d) ==
    { b \in LiveBullets :
        << d, b >> \in c /\ bullets[b].is_player_bullet # IsPlayerDamageable(d) }

\* The bullets reported for d, whatever their faction.
HitBullets(c, d) == { b \in LiveBullets : << d, b >> \in c }

\* C1: friendly fire is ignored entirely.  In a run of check_bullet_damage, a
\* damageable that intersects only bullets of its own faction keeps its health
\* and gets no despawn and no EntityDeath; a bullet that intersects only
\* damageables of its own faction is not despawned; and when no cross-faction
\* pair is reported, no camera shake and no hit effect is emitted.
FriendlyFireIgnored ==
    [][ CheckStep =>
          /\ \A d \in DamageableIds :
               (IsLive(d) /\ CrossBullets(contacts', d) = {}) =>
                  /\ HealthOf(d)' = HealthOf(d)
                  /\ d \notin cmds'.despawn_damageables
                  /\ cmds'.deaths[d] = cmds.deaths[d]
          /\ \A b \in LiveBullets :
               (\A d \in DamageableIds : b \notin CrossBullets(contacts', d)) =>
                  (b \in cmds'.despawn_bullets <=> b \in cmds.despawn_bullets)
          /\ (\A d \in DamageableIds : CrossBullets(contacts', d) = {}) =>
                  /\ shakes' = shakes
                  /\ cmds'.hit_small = cmds.hit_small
                  /\ cmds'.hit_large = cmds.hit_large
      ]_vars

\* C2: a damageable whose health reaches 0 is despawned exactly once and gets
\* exactly one EntityDeath, however many cross-faction bullets intersect it in
\* the tick: at any point of a frame, an entity queued for despawn has exactly
\* one despawn/EntityDeath pair queued, and any other entity has none.
OneDeathPerEntity ==
    \A d \in DamageableIds :
       cmds.deaths[d] = IF d \in cmds.despawn_damageables THEN 1 ELSE 0

\* C8: an enemy spawned with health 2 has health 1 and is alive after the
\* first player bullet that hits it; after the second it has health 0, is
\* queued for despawn and has exactly one EntityDeath; and no enemy dies after
\* fewer player hits than its starting health.
EnemyDiesAfterTwoHits ==
    \A e \in LiveEnemies :
       /\ player_hits[e] = 1 =>
             /\ enemies[e].health = EnemyHealth - 1
             /\ e \notin cmds.despawn_damageables
       /\ player_hits[e] = 2 =>
             /\ enemies[e].health = 0
             /\ e \in cmds.despawn_damageables
             /\ cmds.deaths[e] = 1
       /\ e \in cmds.despawn_damageables => player_hits[e] >= EnemyHealth

\* The damage of a set of bullets.
RECURSIVE TotalDamage(_)
TotalDamage(bs) ==
    IF bs = {} THEN 0
    ELSE LET b == CHOOSE x \in bs : TRUE
         IN bullets[b].damage + TotalDamage(bs \ {b})

InitialHealth(d) == IF d = PlayerId THEN PlayerHealth ELSE EnemyHealth

\* C9: health never underflows.  Every run of check_bullet_damage leaves each
\* damageable with max(0, health - damage of the bullets reported for it); no
\* step increases the health of an entity; and health stays in 0..initial.
HealthSaturates ==
    /\ [](\A d \in DamageableIds :
            IsLive(d) => HealthOf(d) \in 0..InitialHealth(d))
    /\ [][ \A d \in DamageableIds :
             (IsLive(d) /\ IsLive(d)') =>
                /\ HealthOf(d)' <= HealthOf(d)
                /\ CheckStep =>
                     LET damage == TotalDamage(HitBullets(contacts', d))
                     IN HealthOf(d)' =
                          IF HealthOf(d) - damage > 0 THEN HealthOf(d) - damage
                          ELSE 0
       ]_vars

\* C9, the case: a bullet has hit a damageable whose health was already 0.
HitAtZeroHealth ==
    \E d \in DamageableIds :
       /\ IsLive(d)
       /\ HealthOf(d) = 0
       /\ Cardinality(HitBullets(contacts, d)) >= 2
       /\ cmds.deaths[d] >= 2

\* C10: at the end of every combat tick no live damageable has health 0.
NoLiveZeroHealth ==
    (phase = "idle" /\ state = "Game") =>
        \A d \in DamageableIds : IsLive(d) => HealthOf(d) > 0
\* --------------------------------------------- properties of SpecWave
\* A step in which change_wave runs.
ChangeStep == "change_wave" \in pending /\ "change_wave" \notin pending'

\* C3: wave advancement is population-driven.  A run of change_wave leaves
\* current_wave unchanged when an enemy is alive and adds exactly one when none
\* is; nothing else changes current_wave within a session; and the index is
\* advanced once per cleared wave: the wave that is cleared is the one the
\* index names, and the enemies on the field are always those of that wave.
PopulationDrivenWaves ==
    /\ [][ IF ChangeStep
           THEN /\ LiveEnemies # {} =>
                      ai_state'.current_wave = ai_state.current_wave
                /\ LiveEnemies = {} =>
                      /\ ai_state'.current_wave = ai_state.current_wave + 1
                      /\ last_spawned = ai_state.current_wave
           ELSE state' = "Game" => ai_state'.current_wave = ai_state.current_wave
       ]_vars
    /\ []((state = "Game" /\ phase = "idle" /\ LiveEnemies # {}) =>
             last_spawned = ai_state.current_wave)

\* C3, the case: wave 0 was cleared and wave 1 is on the field.
SecondWaveOnField ==
    /\ state = "Game"
    /\ ai_state.current_wave = 1
    /\ LiveEnemies = DOMAIN Waves[2]
    /\ \A e \in LiveEnemies : enemies[e] = NewEnemy(Waves[2][e])

\* C4: with the 2-wave catalog, clearing both waves requests GameState::Menu
\* exactly once; spawn_wave is never called with an index outside the catalog
\* (no unwrap fails); and once the last wave is cleared no enemy is spawned
\* until a new session starts.
CatalogEndsSession ==
    /\ ~panicked
    /\ wave_menu_requests <= 1
    /\ cmds.spawn_wave # NoWave => WaveInCatalog(cmds.spawn_wave)
    /\ last_spawned # NoWave => WaveInCatalog(last_spawned)
    /\ (state = "Game" /\ ai_state.current_wave >= Len(Waves)) =>
          /\ ai_state.current_wave = Len(Waves)
          /\ wave_menu_requests = 1
          /\ next_state = "Menu"
          /\ LiveEnemies = {}
          /\ cmds.spawn_wave = NoWave
    /\ (state = "Game" /\ ai_state.current_wave < Len(Waves)) =>
          wave_menu_requests = 0
    /\ state = "Menu" => LiveEnemies = {}

\* C4, the case: both waves were cleared and the session was left for the menu.
SessionLeftAfterLastWave ==
    /\ state = "Menu"
    /\ sessions >= 1
    /\ wave_menu_requests = 1
    /\ last_spawned = Len(Waves) - 1
    /\ LiveEnemies = {}
\* ---------------------------------------- properties of SpecPowerup
\* The power-up kind of the player.
Kind(p) == IF p = NoEntity THEN "None" ELSE p.powerup.powerup

\* A step in which detect_powerup_collisions runs.
DetectStep ==
    /\ "detect_powerup_collisions" \in pending
    /\ "detect_powerup_collisions" \notin pending'

\* C5: over any sequence of pickup collisions, several in one tick included,
\* the kind follows None -> DoubleShot -> TripleShot -> TripleShot.  The kind
\* only moves along that chain or ends by expiry; the pickup consumed with no
\* power-up attached yields DoubleShot; a pickup consumed while a power-up is
\* attached yields TripleShot; and at the end of a tick a player who has
\* consumed one pickup holds DoubleShot, one who has consumed more TripleShot.
UpgradeChain ==
    /\ [][ /\ << Kind(player), Kind(player)' >> \in
                 { << "None", "None" >>, << "None", "DoubleShot" >>,
                   << "DoubleShot", "DoubleShot" >>,
                   << "DoubleShot", "TripleShot" >>,
                   << "TripleShot", "TripleShot" >>,
                   << "DoubleShot", "None" >>, << "TripleShot", "None" >> }
           /\ (Kind(player) # "None" /\ Kind(player)' = "None") =>
                 cmds.remove_powerup
           /\ (DetectStep /\ pickup_contacts' > 0) =>
                 IF Kind(player) = "None"
                 THEN cmds'.insert_powerup = cmds.insert_powerup + pickup_contacts'
                 ELSE Kind(player)' = "TripleShot"
           /\ (phase = "update" /\ phase' = "idle" /\ cmds.insert_powerup > 0) =>
                 Kind(player)' = "DoubleShot"
       ]_vars
    /\ []((phase = "idle" /\ Kind(player) # "None") =>
             Kind(player) = IF powerup_ledger.consumed = 1 THEN "DoubleShot"
                            ELSE "TripleShot")

UpdateEnemiesStep ==
    "update_enemies" \in pending /\ "update_enemies" \notin pending'

\* C7: formation gating.  update_enemies never writes the velocity of an enemy
\* that holds a MoveToTarget, such an enemy never has a patrol velocity, and at
\* the end of every tick all enemies without a MoveToTarget have the same
\* horizontal velocity.
FormationGating ==
    /\ [][ UpdateEnemiesStep =>
             \A e \in LiveEnemies :
                enemies[e].target => enemies'[e].linvel = enemies[e].linvel
       ]_vars
    /\ [](\A e \in LiveEnemies :
             enemies[e].target => enemies[e].linvel \in {"ZERO", "TOWARD_TARGET"})
    /\ [](phase = "idle" =>
             \A e1, e2 \in LiveEnemies :
                (~enemies[e1].target /\ ~enemies[e2].target) =>
                    enemies[e1].linvel = enemies[e2].linvel)

\* C7, the case: the whole wave stands in formation and patrols, after the
\* patrol has changed direction.
WavePatrols ==
    /\ phase = "idle"
    /\ LiveEnemies # {}
    /\ \A e \in LiveEnemies : ~enemies[e].target /\ enemies[e].linvel = "RIGHT"

\* C19: each enemy's fire cooldown is decremented by dt on every combat tick
\* in which the enemy is alive, whatever the state of the other enemies: a run
\* of update_enemies takes dt off the timer of every live enemy, or finds it
\* run out and draws it anew.
CooldownAlwaysRuns ==
    [][ UpdateEnemiesStep =>
          \A e \in LiveEnemies :
             \/ e \in cmds'.fire_decisions
             \/ /\ enemies'[e].waited = enemies[e].waited + dt
                /\ enemies[e].shot_cooldown_timer # PendingDraw =>
                      enemies'[e].shot_cooldown_timer =
                          enemies[e].shot_cooldown_timer - dt
      ]_vars

\* The bullets that the end of the frame has added.
AddedBullets == { b \in BulletSlots : bullets[b] = NoEntity /\ bullets'[b] # NoEntity }

\* C20: an enemy whose cooldown has reached <= 0 spawns at most one enemy
\* bullet, at its own position, in that tick, and its cooldown is drawn anew
\* from [2.0, 3.0] whether or not it fired; an enemy whose cooldown is > 0
\* after the decrement does not fire; and an enemy's fire decision comes after
\* at least 2.0 s taken off its timer since the timer was drawn.
FireControl ==
    /\ [](cmds.fired \subseteq cmds.fire_decisions)
    /\ [][ UpdateEnemiesStep =>
             /\ cmds'.spawn_enemy_bullets - cmds.spawn_enemy_bullets
                   = Cardinality(cmds'.fired)
             /\ \A e \in LiveEnemies :
                   IF e \in cmds'.fire_decisions
                   THEN /\ enemies'[e].shot_cooldown_timer \in 8..12
                        /\ enemies'[e].waited = 0
                        /\ enemies[e].waited + dt >= 8
                        /\ enemies[e].shot_cooldown_timer # PendingDraw =>
                              enemies[e].shot_cooldown_timer - dt <= 0
                   ELSE /\ e \notin cmds'.fired
                        /\ enemies[e].shot_cooldown_timer # PendingDraw =>
                              enemies'[e].shot_cooldown_timer
                                 \in { enemies[e].shot_cooldown_timer,
                                       enemies[e].shot_cooldown_timer - dt }
                        /\ enemies'[e].shot_cooldown_timer # PendingDraw =>
                              enemies'[e].shot_cooldown_timer > 0
       ]_vars
    /\ [][ (phase = "update" /\ phase' = "idle") =>
             /\ Cardinality(AddedBullets) = Cardinality(cmds.fired)
             /\ \A b \in AddedBullets :
                   /\ ~bullets'[b].is_player_bullet
                   /\ bullets'[b].z = -FormationZ
       ]_vars

\* C20, the case: in one tick two enemies' cooldowns ran out; one has fired,
\* the other has not, and both timers were drawn anew.
OneFiredOneHeld ==
    \E e1, e2 \in LiveEnemies :
       /\ e1 \in cmds.fired
       /\ e2 \in cmds.fire_decisions \ cmds.fired
       /\ cmds.spawn_enemy_bullets = 1
       /\ enemies[e1].shot_cooldown_timer \in 8..12
       /\ enemies[e2].shot_cooldown_timer \in 8..12

\* ------------------------------------------ properties of SpecBullets
\* A step in which the named system runs.
BulletControlsStep ==
    "bullet_controls" \in pending /\ "bullet_controls" \notin pending'
DestroyBulletsStep ==
    "destroy_bullets" \in pending /\ "destroy_bullets" \notin pending'

\* C18: no bullet lingers forever.  A run of destroy_bullets queues the despawn
\* of every bullet with |z| > 20; every combat tick moves a bullet by
\* speed * dt, a player bullet toward -z and an enemy bullet toward +z; and
\* the bullets in flight are eventually all despawned.
NoBulletLingers ==
    /\ [][ DestroyBulletsStep =>
             \A b \in LiveBullets :
                (bullets[b].z > ZBound \/ bullets[b].z < -ZBound) =>
                    b \in cmds'.despawn_bullets
       ]_vars
    /\ [][ BulletControlsStep =>
             \A b \in LiveBullets :
                bullets'[b].z =
                   IF bullets[b].is_player_bullet
                   THEN bullets[b].z - BulletVelocity * dt
                   ELSE bullets[b].z + BulletVelocity * dt
       ]_vars
    /\ <>(LiveBullets = {})

\* C18, the case: a player bullet and an enemy bullet have flown out of
\* bounds, each on its side, and destroy_bullets has queued their despawn.
BothSidesOutOfBounds ==
    \E b1, b2 \in LiveBullets :
       /\ bullets[b1].is_player_bullet /\ bullets[b1].z < -ZBound
       /\ ~bullets[b2].is_player_bullet /\ bullets[b2].z > ZBound
       /\ {b1, b2} \subseteq cmds.despawn_bullets
       /\ \A d \in DamageableIds : << d, b1 >> \notin contacts /\ << d, b2 >> \notin contacts

\* -------------------------------------------- properties of SpecShots
\* A step in which player_controls runs.
PlayerControlsStep ==
    "player_controls" \in pending /\ "player_controls" \notin pending'

\* The bullets a run of player_controls has queued.
ShotsQueued(c) == c.spawn_player_bullets + c.spawn_lateral_bullets

\* C17: the shot pattern follows the player's power-up.  A run of
\* player_controls spawns no bullet or one shot, and a shot is exactly 1 player
\* bullet with no power-up attached, exactly 2 with DoubleShot and exactly 3
\* with TripleShot; every bullet it spawns has is_player_bullet = TRUE.
PatternFollowsPowerup ==
    /\ [][ PlayerControlsStep =>
             LET spawned == ShotsQueued(cmds') - ShotsQueued(cmds)
                 shot == player'.bullet_cooldown > player.bullet_cooldown
             IN /\ cmds'.spawn_enemy_bullets = cmds.spawn_enemy_bullets
                /\ ~shot => spawned = 0
                /\ shot =>
                      spawned = CASE Kind(player) = "None" -> 1
                                  [] Kind(player) = "DoubleShot" -> 2
                                  [] Kind(player) = "TripleShot" -> 3
       ]_vars
    /\ [][ (phase = "update" /\ phase' = "idle") =>
             /\ Cardinality(AddedBullets) = ShotsQueued(cmds)
             /\ \A b \in AddedBullets : bullets'[b].is_player_bullet
       ]_vars

\* C17, the case: a player holding TripleShot has taken a shot, and three
\* player bullets are in flight.
TripleVolley ==
    /\ phase = "idle"
    /\ Kind(player) = "TripleShot"
    /\ player.bullet_cooldown = BulletCooldownTimer
    /\ Cardinality({ b \in LiveBullets : bullets[b].is_player_bullet }) = 3
    /\ Cardinality({ b \in LiveBullets : bullets[b].lateral }) = 2

\* ------------------------------------------ properties of SpecSession
\* The StateTransition out of and into GameState::Game.
ExitStep == state = "Game" /\ state' = "Menu"
EnterStep == state = "Menu" /\ state' = "Game"

\* C11: on session exit every enemy and every bullet is despawned and the wave
\* state is reset to current_wave = 0, move_timer = ENEMY_MOVE_DURATION_S / 2,
\* moving_left = true; nothing changes it in the menu; and every session
\* starts at wave index 0, with wave 0 spawned.
ExitResetsWaveState ==
    /\ [][ ExitStep =>
             /\ \A e \in EnemySlots : enemies'[e] = NoEntity
             /\ \A b \in BulletSlots : bullets'[b] = NoEntity
             /\ ai_state'.current_wave = 0
             /\ 2 * ai_state'.move_timer = EnemyMoveDuration
             /\ ai_state'.moving_left
       ]_vars
    /\ []( state = "Menu" =>
             /\ LiveEnemies = {} /\ LiveBullets = {}
             /\ ai_state.current_wave = 0
             /\ 2 * ai_state.move_timer = EnemyMoveDuration
             /\ ai_state.moving_left )
    /\ [][ EnterStep =>
             /\ ai_state'.current_wave = 0
             /\ last_spawned' = 0
             /\ LiveEnemies' = DOMAIN Waves[1]
       ]_vars

\* C11, the case: the session was left because the player was shot, with the
\* last wave on the field; the enemies and bullets are gone, the wave state is
\* back at its defaults, and the next session has started at wave 0.
NextSessionAtWaveZero ==
    /\ state = "Game"
    /\ sessions = 2
    /\ deaths.player = 1
    /\ ai_state.current_wave = 0
    /\ last_spawned = 0
    /\ LiveEnemies = DOMAIN Waves[1]
    /\ LiveBullets = {}

\* C12: exiting the combat session cancels all in-flight entities: right after
\* the exit no bullet, no enemy and no power-up pickup remains.
ExitCancelsEverything ==
    [][ ExitStep =>
          /\ LiveBullets' = {}
          /\ LiveEnemies' = {}
          /\ pickups' = 0
      ]_vars

\* C13: no entity is shared across sessions.  What exists when a session
\* starts is what its OnEnter handlers have spawned: no bullet, no pickup and
\* no EntityDeath is left from an earlier session, so that every EntityDeath
\* spawn_powerups reads, and every pickup, stems from the running session.
NothingCarriedOver ==
    [][ EnterStep =>
          /\ LiveBullets' = {}
          /\ pickups' = 0
          /\ deaths'.enemy = 0
          /\ deaths'.player = 0
      ]_vars

\* A step in which the named system runs.
SpawnPowerupsStep ==
    "spawn_powerups" \in pending /\ "spawn_powerups" \notin pending'

\* C15: the systems of a tick run in a fixed order: check_bullet_damage has
\* run when spawn_powerups runs and when change_wave runs.
DamageResolvedFirst ==
    [][ (SpawnPowerupsStep \/ ChangeStep) => "check_bullet_damage" \notin pending ]_vars

\* --------------------------------------------- properties of SpecRace
\* C16: no tick fails because an entity was despawned since it was queried:
\* a command for an entity despawned earlier in the tick is a no-op, and
\* player_controls without the player only asks for the menu.
NoTickFails ==
    /\ [](~panicked)
    /\ [][ (PlayerControlsStep /\ player = NoEntity) =>
             /\ cmds' = cmds
             /\ next_state' = "Menu"
       ]_vars

\* ------------------------------------- more properties of SpecWave
\* C14: despawn is immediate within a tick.  In check_bullet_damage a
\* damageable that one pair has despawned is not seen by a later pair, so it
\* gets one EntityDeath at most; change_wave counts the enemies that have not
\* been despawned in this tick; and a power-up is not attached to a player
\* despawned in this tick.
DespawnImmediate ==
    [][ /\ CheckStep => \A d \in DamageableIds : cmds'.deaths[d] <= 1
        /\ (ChangeStep /\ LiveEnemies \ cmds.despawn_damageables = {}) =>
              ai_state'.current_wave = ai_state.current_wave + 1
        /\ (DetectStep /\ PlayerId \in cmds.despawn_damageables) =>
              cmds'.insert_powerup = cmds.insert_powerup
      ]_vars

\* ------------------------------- more properties of SpecFormation
\* C21: while the wave patrols, a run of update_enemies takes dt off the
\* shared move_timer; the direction flag flips exactly when the decremented
\* timer is <= 0, and the timer is then reset to ENEMY_MOVE_DURATION_S; the
\* direction is kept, and the decremented timer stored, when it is > 0; and
\* no other step of a session changes the timer or the direction.
PatrolTimer ==
    [][ IF UpdateEnemiesStep /\ FormationComplete
        THEN LET decremented == ai_state.move_timer - dt
             IN IF decremented <= 0
                THEN /\ ai_state'.moving_left = ~ai_state.moving_left
                     /\ ai_state'.move_timer = EnemyMoveDuration
                ELSE /\ ai_state'.moving_left = ai_state.moving_left
                     /\ ai_state'.move_timer = decremented
        ELSE /\ ai_state'.moving_left = ai_state.moving_left
             /\ ai_state'.move_timer = ai_state.move_timer
      ]_vars

\* C21, the case: the patrol has flipped its direction in a tick that took
\* the timer to exactly 0, and the tick after has only taken its dt off the
\* reset timer.
FlippedThenCounting ==
    /\ phase = "idle"
    /\ LiveEnemies # {}
    /\ FormationComplete
    /\ ~ai_state.moving_left
    /\ ai_state.move_timer = EnemyMoveDuration - 4

\* ---------------------------------------- properties of SpecForming
\* A step in which update_move_to_target runs.
MoveToTargetStep ==
    "update_move_to_target" \in pending /\ "update_move_to_target" \notin pending'

\* C28: forming up always ends.  A run of update_move_to_target stops an enemy
\* that is within 0.10 of its target, puts it on the target and removes the
\* MoveToTarget of that enemy only, and sends every other holder toward its
\* target; with a travel of at most 0.2 per tick every enemy loses its
\* MoveToTarget, by arriving or by dying, so that the patrol gate opens.
FormingUpEnds ==
    /\ [][ MoveToTargetStep =>
             \A e \in LiveEnemies :
                IF enemies[e].target /\ enemies[e].distance <= Tolerance
                THEN /\ enemies'[e].linvel = "ZERO"
                     /\ enemies'[e].distance = 0
                     /\ e \in cmds'.remove_target
                ELSE /\ e \in cmds'.remove_target <=> e \in cmds.remove_target
                     /\ enemies'[e].distance = enemies[e].distance
                     /\ enemies[e].target => enemies'[e].linvel = "TOWARD_TARGET"
       ]_vars
    /\ <>FormationComplete

\* C28, the case: an enemy has come within the tolerance, was put on its
\* target and has lost its MoveToTarget, while another enemy of the wave was
\* shot down before it arrived, and the gate is open.
ArrivedWhileOtherShot ==
    \E e1, e2 \in EnemySlots :
       /\ phase = "idle"
       /\ enemies[e1] # NoEntity
       /\ ~enemies[e1].target
       /\ enemies[e1].distance = 0
       /\ enemies[e2] = NoEntity
       /\ player_hits[e2] >= EnemyHealth
       /\ FormationComplete

\* ------------------------------------------- properties of SpecGate
\* C22: while a live enemy holds a MoveToTarget the patrol is suppressed: a
\* run of update_enemies leaves move_timer and moving_left as they are, writes
\* no enemy's velocity or cooldown and fires no bullet, and no other step of
\* the tick changes the timer or the direction; a run that finds no live
\* enemy with a MoveToTarget, the holders having arrived or been despawned,
\* runs the timer and gives every enemy the patrol velocity.
PatrolSuppressed ==
    [][ IF UpdateEnemiesStep
        THEN IF \E e \in LiveEnemies : enemies[e].target
             THEN /\ ai_state' = ai_state
                  /\ enemies' = enemies
                  /\ cmds' = cmds
             ELSE /\ ai_state'.move_timer \in
                        { ai_state.move_timer - dt, EnemyMoveDuration }
                  /\ \A e \in LiveEnemies :
                        enemies'[e].linvel =
                           IF ai_state'.moving_left THEN "LEFT" ELSE "RIGHT"
        ELSE ai_state' = ai_state
      ]_vars

\* C22, the case: update_enemies has run in a tick in which one enemy stands
\* on its target and the other, still holding its MoveToTarget, was shot down:
\* the timer and the direction are at their defaults and the enemy that has
\* arrived stands still.
SuppressedByDyingHolder ==
    \E e1, e2 \in LiveEnemies :
       /\ phase = "update"
       /\ "update_enemies" \notin pending
       /\ enemies[e1].target
       /\ e1 \in cmds.despawn_damageables
       /\ ~enemies[e2].target
       /\ enemies[e2].linvel = "ZERO"
       /\ ai_state = DefaultAIState
       /\ cmds.fire_decisions = {}

\* C23: on session start and on every advance to an index inside the catalog
\* the wave at the current wave index is spawned: whenever enemies come onto
\* the field they are one enemy per EnemyInstance of the wave that
\* current_wave names, each with the instance's health and a MoveToTarget at
\* its grid position times 0.5 (x) and 1.0 (z) plus the depth offset -3.0;
\* the session start spawns, and so does every advance inside the catalog.
WaveSpawnedFromCatalog ==
    /\ [][ (LiveEnemies = {} /\ LiveEnemies' # {}) =>
             LET wave_id == ai_state'.current_wave
             IN /\ wave_id + 1 \in DOMAIN Waves
                /\ LiveEnemies' = DOMAIN Waves[wave_id + 1]
                /\ \A e \in LiveEnemies' :
                      LET instance == Waves[wave_id + 1][e]
                      IN /\ enemies'[e].health = instance.health
                         /\ enemies'[e].target
                         /\ 8 * enemies'[e].target_position.x
                               = 4 * 8 * instance.position[1]
                         /\ enemies'[e].target_position.z
                               = 8 * instance.position[2] - 3 * 8
       ]_vars
    /\ [][ EnterStep => LiveEnemies' # {} ]_vars
    /\ [][ (ChangeStep /\ ai_state'.current_wave # ai_state.current_wave
                      /\ ai_state'.current_wave < Len(Waves)) =>
             cmds'.spawn_wave = ai_state'.current_wave
       ]_vars
    /\ [][ (phase = "update" /\ phase' = "idle" /\ cmds.spawn_wave # NoWave) =>
             (LiveEnemies = {} /\ LiveEnemies' # {})
       ]_vars

\* C23, the case: wave 0 was cleared and the advance to index 1 has spawned
\* wave 1, whose first enemy is on its way to column -5, row -2, that is to
\* x = -2.5 and z = -5.0.
WaveOneOnItsWay ==
    /\ state = "Game"
    /\ phase = "idle"
    /\ ai_state.current_wave = 1
    /\ last_spawned = 1
    /\ enemies[1] # NoEntity
    /\ enemies[1].health = EnemyHealth
    /\ enemies[1].target
    /\ enemies[1].target_position = [ x |-> -20, z |-> -40 ]

\* -------------------------------- more properties of SpecPowerup
\* The end of a frame.
EndOfFrame == phase = "update" /\ phase' = "idle"

\* C24: every EntityDeath of an enemy is processed exactly once.  A run of
\* spawn_powerups queues the despawn of every enemy EntityDeath there is and
\* drops at most one pickup for each; when the tick ends those EntityDeaths
\* are gone, so that none is read in a second tick, and the pickups dropped
\* are on the field; an EntityDeath of the player drops nothing.
NotesConsumedOnce ==
    /\ [][ SpawnPowerupsStep =>
             /\ cmds'.despawn_deaths = deaths.enemy
             /\ cmds'.spawn_pickups - cmds.spawn_pickups \in 0..deaths.enemy
       ]_vars
    /\ [][ EndOfFrame =>
             /\ cmds.despawn_deaths = deaths.enemy
             /\ deaths'.enemy <= SumDeaths(EnemySlots)
             /\ pickups' = pickups - cmds.despawn_pickups + cmds.spawn_pickups
       ]_vars
    /\ []((deaths.enemy = 0 /\ "spawn_powerups" \notin pending) =>
             cmds.spawn_pickups = 0)

\* C24, the case: spawn_powerups has read two EntityDeaths of enemies in one
\* tick, has queued the despawn of both and has dropped a pickup for one.
TwoNotesOneDrop ==
    /\ phase = "update"
    /\ "spawn_powerups" \notin pending
    /\ deaths.enemy = 2
    /\ cmds.despawn_deaths = 2
    /\ cmds.spawn_pickups = 1

\* C25: every pickup reported as intersecting the player is despawned,
\* whether the player holds no power-up, DoubleShot or TripleShot, and a pickup
\* changes the power-up at most once: a run of detect_powerup_collisions
\* queues the despawn of each pickup it reports, credits each of them once,
\* and when the tick ends those pickups are off the field.
PickupConsumedOnce ==
    /\ [][ (DetectStep /\ player # NoEntity) =>
             /\ pickup_contacts' <= pickups - cmds.despawn_pickups
             /\ cmds'.despawn_pickups = cmds.despawn_pickups + pickup_contacts'
             /\ Kind(player) = "None" =>
                   /\ cmds'.insert_powerup = cmds.insert_powerup + pickup_contacts'
                   /\ player' = player
             /\ Kind(player) # "None" =>
                   /\ cmds'.insert_powerup = cmds.insert_powerup
                   /\ player'.powerup.time_left =
                         player.powerup.time_left + pickup_contacts' * PowerupDuration
       ]_vars
    /\ [][ EndOfFrame =>
             pickups' = pickups - pickup_contacts + cmds.spawn_pickups
       ]_vars
    /\ [](pickups >= 0 /\ cmds.despawn_pickups <= pickups)

\* C25, the case: a player who holds TripleShot after two pickups has touched
\* a third one, whose despawn is queued.
ThirdPickupDespawned ==
    /\ phase = "update"
    /\ "detect_powerup_collisions" \notin pending
    /\ Kind(player) = "TripleShot"
    /\ powerup_ledger.consumed = 3
    /\ pickup_contacts = 1
    /\ cmds.despawn_pickups = 1
    /\ cmds.insert_powerup = 0

\* A step in which update_powerups runs.
UpdatePowerupsStep ==
    "update_powerups" \in pending /\ "update_powerups" \notin pending'

\* C26: expiry.  Each combat tick takes dt off the time left of an attached
\* power-up; update_powerups queues the removal exactly when the decremented
\* time is below 0; and the power-up that the end of a tick removes has a time
\* left below 0, never one that is >= 0.
ExpiryBelowZero ==
    /\ [][ (UpdatePowerupsStep /\ Kind(player) # "None") =>
             /\ player'.powerup.time_left = player.powerup.time_left - dt
             /\ cmds'.remove_powerup = (player.powerup.time_left - dt < 0)
       ]_vars
    /\ [][ (EndOfFrame /\ Kind(player) # "None" /\ player # NoEntity) =>
             (Kind(player)' = "None" <=> player.powerup.time_left < 0)
       ]_vars

\* C29: the power-up at the end of a tick does not depend on whether
\* update_powerups or detect_powerup_collisions ran first: a pickup collected
\* in the tick in which the time left would drop below 0 is not lost, the
\* player ends the tick with the upgraded kind and with the time left plus
\* the pickup's time minus dt.
PickupNotLostAtExpiry ==
    [][ (EndOfFrame /\ player # NoEntity /\ Kind(player) # "None"
                    /\ pickup_contacts > 0) =>
          /\ Kind(player)' = Kind(player)
          /\ player'.powerup.time_left = player.powerup.time_left
          /\ player'.powerup.time_left >= 0
      ]_vars

\* ------------------------------------------------------- SpecDrift
\* The power-up systems of SpecPowerup under the frame loop's fairness: the
\* app keeps running frames, and every system scheduled in a frame runs in it.
\* Nothing makes a pickup meet the player, so no fairness is put on contacts.
SpecDrift == InitPowerup /\ [][NextPowerup]_vars /\ WF_vars(NextPowerup)

\* C27: every pickup is eventually destroyed, by the player's touch or by
\* going out of bounds: whenever pickups are on the field, a later tick ends
\* with none of them left.
EveryPickupDestroyed == (pickups > 0) ~> (pickups = 0)

\* ------------------------------------------------------- SpecPlayerDeath
\* The end of a session whose player is one hit from death: the last wave
\* patrols, bullets of both factions are in flight, and player_controls,
\* check_bullet_damage and change_wave run in every tick until the
\* StateTransition to the menu.  The frame loop is weakly fair: the app keeps
\* running frames and every system scheduled in a frame runs in it.
PlayerDeathSystems == { "player_controls", "check_bullet_damage", "change_wave" }

InitPlayerDeath ==
    /\ state = "Game"
    /\ next_state = "None"
    /\ phase = "idle"
    /\ pending = {}
    /\ dt = 0
    /\ sessions = 1
    /\ game_player = TRUE
    /\ bullets \in BulletsInFlight
    /\ player = [ NewPlayer EXCEPT
                    !.health = 1,
                    !.bullet_cooldown =
                        IF \E b \in BulletSlots : bullets[b] = NewBullet(TRUE, FALSE)
                        THEN BulletCooldownTimer ELSE 0 ]
    /\ enemies = LastWavePatrolling
    /\ pickups = 0
    /\ deaths = [enemy |-> 0, player |-> 0]
    /\ shakes = 0
    /\ ai_state = [ current_wave |-> LastWave, move_timer |-> EnemyMoveDuration,
                    moving_left |-> TRUE ]
    /\ contacts = {}
    /\ pickup_contacts = 0
    /\ cmds = NoCommands
    /\ player_hits = [ e \in EnemySlots |->
                         IF e \in DOMAIN Waves[LastWave + 1] THEN 1 ELSE 0 ]
    /\ powerup_ledger = NoLedger
    /\ last_spawned = LastWave
    /\ wave_menu_requests = 0
    /\ panicked = FALSE

NextPlayerDeath ==
    \/ BeginUpdate(PlayerDeathSystems)
    \/ PlayerControls
    \/ CheckBulletDamage
    \/ ChangeWave
    \/ ApplyDeferred
    \/ ExitGame

SpecPlayerDeath ==
    InitPlayerDeath /\ [][NextPlayerDeath]_vars /\ WF_vars(NextPlayerDeath)

\* C30: player death ends the session.  Once the player is despawned, the
\* player_controls of the next tick requests the menu and queues no bullet,
\* so that the tick ends with the menu requested; the exit that follows
\* leaves no enemy and no bullet and resets the wave state; and a session
\* without a player always reaches the menu.
PlayerDeathEndsSession ==
    /\ [][ (PlayerControlsStep /\ game_player /\ player = NoEntity) =>
             /\ next_state' = "Menu"
             /\ cmds'.spawn_player_bullets = cmds.spawn_player_bullets
             /\ cmds'.spawn_lateral_bullets = cmds.spawn_lateral_bullets
       ]_vars
    /\ [][ (EndOfFrame /\ player = NoEntity) => next_state' = "Menu" ]_vars
    /\ [][ (state = "Game" /\ state' = "Menu") =>
             /\ LiveEnemies' = {}
             /\ LiveBullets' = {}
             /\ ai_state' = DefaultAIState
       ]_vars
    /\ (state = "Game" /\ player = NoEntity) ~> (state = "Menu")

\* The player was shot while enemies were left, player_controls asked for
\* the menu (change_wave did not), and the exit has cleared the field.
ExitedAfterPlayerDeath ==
    /\ state = "Menu"
    /\ player = NoEntity
    /\ deaths.player = 1
    /\ wave_menu_requests = 0
    /\ LiveEnemies = {}
    /\ LiveBullets = {}
    /\ ai_state = DefaultAIState

\* ------------------------------------------ one bullet, several targets
\* check_bullet_damage: the health the bullet b takes from the damageable d
\* when c is reported, in the inner loop of d.
RemovedBy(c, d, b) ==
    LET bs == ContactsOf(c, d)
        RECURSIVE Walk(_, _)
        Walk(i, health) ==
            IF i > Len(bs) THEN 0
            ELSE LET after == ApplyDamage(health, bullets[bs[i]].damage)
                 IN IF bs[i] = b THEN health - after ELSE Walk(i + 1, after)
    IN Walk(1, HealthOf(d))

\* The live damageables of the faction the bullet b is not of.
CrossFaction(b) ==
    { d \in DamageableIds :
        IsLive(d) /\ IsPlayerDamageable(d) # bullets[b].is_player_bullet }

\* C31: a bullet applies its damage to at most one damageable of the other
\* faction: in a run of check_bullet_damage the health a bullet takes from
\* all of them together is at most bullet.damage, also when the bullet is
\* reported as intersecting two of them.
OneTargetPerBullet ==
    [][ CheckStep =>
          \A b \in LiveBullets :
             LET targets == CrossFaction(b)
             IN SumOver(targets, [ d \in targets |-> RemovedBy(contacts', d, b) ])
                   <= bullets[b].damage
      ]_vars

====
